---- MODULE Spec2Model ----
(***************************************************************************)
(* spotctl (src/src/main.rs): the retry wrapper Client::call_api, the      *)
(* pagination accumulator Client::get_all, Client::set_playlist, the       *)
(* grouper (partition_by_album, partition_groups) and the assembler        *)
(* (create_playlist).                                                      *)
(*                                                                         *)
(* The specifications share the variables; each leaves the variables of   *)
(* the components it does not run at their idle values:                    *)
(*   SpecFetch        get_all over call_api, against a remote collection   *)
(*   SpecFetchLive    SpecFetch with every enabled step eventually taken   *)
(*   SpecSetPlaylist  set_playlist over call_api                           *)
(*   SpecGroup        partition_groups / partition_by_album on a track list*)
(*   SpecAssemble     create_playlist on a list of groups                  *)
(*   SpecShuffle      shuffle_library: the functions above in sequence     *)
(* Durations are in milliseconds throughout (Duration comparisons in the   *)
(* source are exact, and every duration is a sum of whole milliseconds).   *)
(***************************************************************************)
EXTENDS Integers, Sequences, FiniteSets

VARIABLES
    pc,          \* position of the running function
    api_calls,   \* call_api: invocations of func in the current call_api
    api_results, \* call_api: what each invocation of func returned (tag and error)
    api_sleeps,  \* call_api: seconds slept, one entry per thread::sleep
    api_ret,     \* call_api: its return value
    remote,      \* get_all: the remote collection the page loader serves
    changes,     \* get_all: concurrent modifications of the remote collection so far
    total,       \* get_all: meta.total
    offset,      \* get_all: offset
    out,         \* get_all: out
    pages,       \* get_all: item lists of the pages the loop's loads returned
    ret,         \* get_all / set_playlist: the function's return value
    track_ids,   \* set_playlist: track_ids
    chunk,       \* set_playlist: index of the chunk the for loop is at
    dest,        \* set_playlist: contents of the destination playlist
    log,         \* set_playlist: remote calls issued, with their outcome
    src_tracks,  \* grouper: the input track list
    playlist_name, \* grouper: the playlist's name
    groups,      \* grouper: result of the partition function applied
    groups_in,   \* create_playlist: src as passed by the caller
    src,         \* create_playlist: src (after the shuffle)
    goal,        \* create_playlist: goal_duration argument
    idx,         \* create_playlist: groups of src the for loop has visited
    playlist_duration, \* create_playlist: playlist_duration
    out_ids,     \* create_playlist: out
    phase,       \* shuffle_library: the call it is in
    library,     \* shuffle_library: the user's playlists at the remote service
    playlists,   \* load_groups: the listing its for loop walks
    pl_idx,      \* load_groups: position of the for loop in the listing
    all_groups,  \* load_groups: groups
    fetched,     \* load_groups: IDs of the playlists it called playlist_tracks for
    lookup,      \* get_or_create_shuffle_playlist_id: the listing it searched
    playlist_id, \* shuffle_library: playlist_id
    create_log,  \* create_playlist requests issued, with their outcome
    result       \* shuffle_library: its return value

api_vars == <<api_calls, api_results, api_sleeps, api_ret>>
fetch_vars == <<remote, changes, total, offset, out, pages>>
set_vars == <<track_ids, chunk, dest, log>>
group_vars == <<src_tracks, playlist_name, groups>>
asm_vars == <<groups_in, src, goal, idx, playlist_duration, out_ids>>
orch_vars == <<phase, library, playlists, pl_idx, all_groups, fetched, lookup,
               playlist_id, create_log, result>>
vars == <<pc, api_vars, fetch_vars, ret, set_vars, group_vars, asm_vars, orch_vars>>

(***************************************************************************)
(* Bounds of the model.                                                    *)
(***************************************************************************)
MaxRateLimits == 2   \* rate-limit errors one call_api receives
MaxItems == 3        \* items of the remote collection at the start
MaxPage == 2         \* items the page loader serves in one page
MaxChanges == 1      \* concurrent modifications of the remote collection
MaxTrackIds == 201   \* length of set_playlist's track_ids
MaxTracks == 3       \* tracks of the grouper's input
MaxGroups == 3       \* groups of create_playlist's input

(***************************************************************************)
(* Option<T>, Result<T, E> and the errors of the remote client.            *)
(***************************************************************************)
None == [some |-> FALSE, v |-> 0]
Some(x) == [some |-> TRUE, v |-> x]
unwrap_or(o, d) == IF o.some THEN o.v ELSE d
is_some(o) == o.some

Min(a, b) == IF a < b THEN a ELSE b

RECURSIVE Flatten(_)
Flatten(ss) == IF ss = <<>> THEN <<>> ELSE Head(ss) \o Flatten(Tail(ss))

\* retry-after values a rate-limit error carries
RetryAfter == {None, Some(0), Some(3)}
RateLimited(timeout) == [kind |-> "RateLimited", timeout |-> timeout]
\* the errors of the remote client that are not rate limits
OtherErrors == {[kind |-> "Unauthorized", timeout |-> None],
                [kind |-> "Other", timeout |-> None]}
NoError == [kind |-> "", timeout |-> None]

NoPage == [items |-> <<>>, total |-> 0]
Pending == [tag |-> "pending", page |-> NoPage, err |-> NoError, val |-> <<>>]
Ok(p) == [tag |-> "ok", page |-> p, err |-> NoError, val |-> <<>>]
Err(e) == [tag |-> "err", page |-> NoPage, err |-> e, val |-> <<>>]
OkVal(v) == [tag |-> "ok", page |-> NoPage, err |-> NoError, val |-> v]

(***************************************************************************)
(* Client::call_api: loop { match func() { ... } }.  The call sites are    *)
(* the pc values ending in "_call"; call_api returns to the matching       *)
(* "_ret".                                                                 *)
(***************************************************************************)
CallSites == {"meta_call", "page_call", "clear_call", "add_call", "create_call"}
RetSite(site) ==
    CASE site = "meta_call" -> "meta_ret"
      [] site = "page_call" -> "page_ret"
      [] site = "clear_call" -> "clear_ret"
      [] site = "add_call" -> "add_ret"
      [] site = "create_call" -> "create_ret"

\* mutant: only a rate-limit error that carries a retry-after value is retried
IsRateLimited_OnlyWithTimeout(e) == e.kind = "RateLimited" /\ e.timeout.some

\* if let Some(ApiError::RateLimited(timeout)) = e.downcast_ref()
IsRateLimited(e) == e.kind = "RateLimited"

\* mutant: no default wait when the error carries no retry-after value
SleepSecs_NoDefault(timeout) == unwrap_or(timeout, 0)

\* Duration::from_secs(timeout.unwrap_or(1usize) as u64)
SleepSecs(timeout) == unwrap_or(timeout, 1)

ApiIdle == /\ api_calls = 0
           /\ api_results = <<>>
           /\ api_sleeps = <<>>
           /\ api_ret = Pending

ApiEnter == /\ api_calls' = 0
            /\ api_results' = <<>>
            /\ api_sleeps' = <<>>
            /\ api_ret' = Pending

\* the match on one result r of func(), lines 64-75
CallApiStep(r) ==
    /\ api_calls' = api_calls + 1
    /\ IF r.tag = "ok"
       THEN /\ api_ret' = r
            /\ pc' = RetSite(pc)
            /\ UNCHANGED api_sleeps
       ELSE IF IsRateLimited(r.err)
       THEN /\ api_sleeps' = Append(api_sleeps, SleepSecs(r.err.timeout))
            /\ UNCHANGED <<api_ret, pc>>
       ELSE /\ api_ret' = r
            /\ pc' = RetSite(pc)
            /\ UNCHANGED api_sleeps

\* one invocation of func() by call_api, returning r
Func(r) ==
    /\ api_results' = Append(api_results, [tag |-> r.tag, err |-> r.err])
    /\ CallApiStep(r)

(***************************************************************************)
(* The page loader get_page(off): one page of the remote collection from   *)
(* off on, of a size the remote service chooses, and the collection's      *)
(* current size.                                                           *)
(***************************************************************************)
get_page(off, size) ==
    [items |-> SubSeq(remote, off + 1, Min(off + size, Len(remote))),
     total |-> Len(remote)]

GetPageArgAt(site) == IF site \in {"meta_call", "meta_ret"} THEN 0 ELSE offset
GetPageArg == GetPageArgAt(pc)

\* func() succeeds at a call site of get_all
FetchOk ==
    /\ pc \in {"meta_call", "page_call"}
    /\ \E size \in 0..MaxPage :
          LET p == get_page(GetPageArg, size) IN
          /\ Func(Ok(p))
          /\ pages' = IF pc = "page_call" THEN Append(pages, p.items) ELSE pages
    /\ UNCHANGED <<remote, changes, total, offset, out, ret>>
    /\ UNCHANGED <<set_vars, group_vars, asm_vars>>
    /\ UNCHANGED orch_vars

\* func() fails with a rate-limit error
FetchRateLimited ==
    /\ pc \in {"meta_call", "page_call"}
    /\ Len(api_results) < MaxRateLimits
    /\ \E t \in RetryAfter : Func(Err(RateLimited(t)))
    /\ UNCHANGED <<fetch_vars, ret, set_vars, group_vars, asm_vars>>
    /\ UNCHANGED orch_vars

\* func() fails with another error
FetchErr ==
    /\ pc \in {"meta_call", "page_call"}
    /\ \E e \in OtherErrors : Func(Err(e))
    /\ UNCHANGED <<fetch_vars, ret, set_vars, group_vars, asm_vars>>
    /\ UNCHANGED orch_vars

(***************************************************************************)
(* Client::get_all.                                                        *)
(***************************************************************************)
\* mutant: the loop also runs when the offset has reached the total
GetAllLoop_Inclusive(off, tot, acc) ==
    IF off <= tot
    THEN /\ pc' = "page_call"
         /\ ApiEnter
         /\ ret' = ret
    ELSE /\ pc' = "done"
         /\ ret' = OkVal(acc)
         /\ UNCHANGED api_vars

\* while offset < meta.total { call_api(...) } ... Ok(out)
GetAllLoop(off, tot, acc) ==
    IF off < tot
    THEN /\ pc' = "page_call"
         /\ ApiEnter
         /\ ret' = ret
    ELSE /\ pc' = "done"
         /\ ret' = OkVal(acc)
         /\ UNCHANGED api_vars

\* let meta = Self::call_api(|| get_page(0))?; ... let mut offset = 0u32;
GetAllMeta ==
    /\ pc = "meta_ret"
    /\ IF api_ret.tag = "err"
       THEN /\ ret' = Err(api_ret.err)
            /\ pc' = "done"
            /\ UNCHANGED <<api_vars, total, offset, out>>
       ELSE /\ total' = api_ret.page.total
            /\ offset' = 0
            /\ out' = <<>>
            /\ GetAllLoop(0, api_ret.page.total, <<>>)
    /\ UNCHANGED <<remote, changes, pages>>
    /\ UNCHANGED <<set_vars, group_vars, asm_vars>>
    /\ UNCHANGED orch_vars

\* mutant: an empty page does not end the loop
IsEmptyPage_Never(items) == FALSE

\* res.items.is_empty()
IsEmptyPage(items) == items = <<>>

\* mutant: the offset advances by an assumed page size
NextOffset_AssumedPageSize(off, items) == off + MaxPage

\* offset += res.items.len() as u32
NextOffset(off, items) == off + Len(items)

\* out.append(&mut res.items)
Accumulate(acc, items) == acc \o items

\* the loop body after call_api returned, lines 86-95
GetAllPage ==
    /\ pc = "page_ret"
    /\ IF api_ret.tag = "err"
       THEN /\ ret' = Err(api_ret.err)
            /\ pc' = "done"
            /\ UNCHANGED <<api_vars, offset, out>>
       ELSE IF IsEmptyPage(api_ret.page.items)
       THEN /\ ret' = OkVal(out)
            /\ pc' = "done"
            /\ UNCHANGED <<api_vars, offset, out>>
       ELSE /\ offset' = NextOffset(offset, api_ret.page.items)
            /\ out' = Accumulate(out, api_ret.page.items)
            /\ GetAllLoop(NextOffset(offset, api_ret.page.items), total,
                          Accumulate(out, api_ret.page.items))
    /\ UNCHANGED <<remote, changes, total, pages>>
    /\ UNCHANGED <<set_vars, group_vars, asm_vars>>
    /\ UNCHANGED orch_vars

(***************************************************************************)
(* The remote collection changes while get_all runs.                       *)
(***************************************************************************)
RemoteGrow ==
    /\ pc \in {"meta_call", "page_call"}
    /\ changes < MaxChanges
    /\ remote' = Append(remote, MaxItems + changes + 1)
    /\ changes' = changes + 1
    /\ UNCHANGED <<pc, api_vars, total, offset, out, pages, ret>>
    /\ UNCHANGED <<set_vars, group_vars, asm_vars>>
    /\ UNCHANGED orch_vars

RemoteShrink ==
    /\ pc \in {"meta_call", "page_call"}
    /\ changes < MaxChanges
    /\ remote # <<>>
    /\ remote' = Tail(remote)
    /\ changes' = changes + 1
    /\ UNCHANGED <<pc, api_vars, total, offset, out, pages, ret>>
    /\ UNCHANGED <<set_vars, group_vars, asm_vars>>
    /\ UNCHANGED orch_vars

(***************************************************************************)
(* Client::set_playlist.  The remote calls are                             *)
(* user_playlist_replace_tracks(.., &[]) at "clear_call" and               *)
(* user_playlist_add_tracks(.., track_id_chunk, ..) at "add_call"; log     *)
(* records every remote call issued, with its argument and outcome.        *)
(***************************************************************************)
ChunkSize == 100

\* track_ids.chunks(100).count()
NumChunks == (Len(track_ids) + ChunkSize - 1) \div ChunkSize

\* mutant: a chunk runs one element into the next chunk
Chunk_Overlapping(i) ==
    SubSeq(track_ids, (i - 1) * ChunkSize + 1, Min(i * ChunkSize + 1, Len(track_ids)))

\* the i-th slice track_ids.chunks(100) yields, i from 1
Chunk(i) ==
    SubSeq(track_ids, (i - 1) * ChunkSize + 1, Min(i * ChunkSize, Len(track_ids)))

RemoteOp == IF pc = "clear_call" THEN "replace" ELSE "add"
RemoteArg == IF pc = "clear_call" THEN <<>> ELSE Chunk(chunk)

\* the remote call succeeds: the service replaces or extends the playlist
SetOk ==
    /\ pc \in {"clear_call", "add_call"}
    /\ dest' = IF pc = "clear_call" THEN RemoteArg ELSE dest \o RemoteArg
    /\ log' = Append(log, [op |-> RemoteOp, ids |-> RemoteArg, tag |-> "ok"])
    /\ Func(Ok(NoPage))
    /\ UNCHANGED <<track_ids, chunk, ret>>
    /\ UNCHANGED <<fetch_vars, group_vars, asm_vars>>
    /\ UNCHANGED orch_vars

\* the remote call fails with a rate-limit error
SetRateLimited ==
    /\ pc \in {"clear_call", "add_call"}
    /\ Len(api_results) < MaxRateLimits
    /\ log' = Append(log, [op |-> RemoteOp, ids |-> RemoteArg, tag |-> "limited"])
    /\ \E t \in RetryAfter : Func(Err(RateLimited(t)))
    /\ UNCHANGED <<track_ids, chunk, dest, ret>>
    /\ UNCHANGED <<fetch_vars, group_vars, asm_vars>>
    /\ UNCHANGED orch_vars

\* the remote call fails with another error
SetErr ==
    /\ pc \in {"clear_call", "add_call"}
    /\ log' = Append(log, [op |-> RemoteOp, ids |-> RemoteArg, tag |-> "err"])
    /\ \E e \in OtherErrors : Func(Err(e))
    /\ UNCHANGED <<track_ids, chunk, dest, ret>>
    /\ UNCHANGED <<fetch_vars, group_vars, asm_vars>>
    /\ UNCHANGED orch_vars

\* for track_id_chunk in track_ids.chunks(100) { call_api(...) } Ok(())
SetPlaylistLoop(i) ==
    IF i <= NumChunks
    THEN /\ chunk' = i
         /\ pc' = "add_call"
         /\ ApiEnter
         /\ ret' = ret
    ELSE /\ chunk' = chunk
         /\ pc' = "done"
         /\ ret' = OkVal(<<>>)
         /\ UNCHANGED api_vars

\* Self::call_api(|| ...replace_tracks(.., &[]))?; then the first chunk
SetPlaylistClear ==
    /\ pc = "clear_ret"
    /\ IF api_ret.tag = "err"
       THEN /\ ret' = Err(api_ret.err)
            /\ pc' = "done"
            /\ UNCHANGED <<api_vars, chunk>>
       ELSE SetPlaylistLoop(1)
    /\ UNCHANGED <<track_ids, dest, log>>
    /\ UNCHANGED <<fetch_vars, group_vars, asm_vars>>
    /\ UNCHANGED orch_vars

\* mutant: the error of an add call is dropped and the loop goes on
SetPlaylistAdd_IgnoresError ==
    /\ pc = "add_ret"
    /\ SetPlaylistLoop(chunk + 1)
    /\ UNCHANGED <<track_ids, dest, log>>
    /\ UNCHANGED <<fetch_vars, group_vars, asm_vars>>
    /\ UNCHANGED orch_vars

\* Self::call_api(|| ...add_tracks(.., track_id_chunk, None))?; then the next chunk
SetPlaylistAdd ==
    /\ pc = "add_ret"
    /\ IF api_ret.tag = "err"
       THEN /\ ret' = Err(api_ret.err)
            /\ pc' = "done"
            /\ UNCHANGED <<api_vars, chunk>>
       ELSE SetPlaylistLoop(chunk + 1)
    /\ UNCHANGED <<track_ids, dest, log>>
    /\ UNCHANGED <<fetch_vars, group_vars, asm_vars>>
    /\ UNCHANGED orch_vars

(***************************************************************************)
(* The grouper.  A PlaylistTrack is [id, album_id, album_name,             *)
(* duration_ms] with id and album_id an Option; a TrackGroup is [name,     *)
(* track_ids, duration]; a function that can panic (assert!, unwrap)       *)
(* yields [panic, groups].                                                 *)
(***************************************************************************)
Duration_from_secs(secs) == secs * 1000
Duration_from_millis(ms) == ms

Panic == [panic |-> TRUE, groups |-> <<>>]
Groups(gs) == [panic |-> FALSE, groups |-> gs]

\* mutant: only the last track's duration is counted
fold_duration_LastOnly(acc, tracks) ==
    IF tracks = <<>> THEN acc
    ELSE acc + Duration_from_millis(tracks[Len(tracks)].duration_ms)

\* src.iter().fold(Duration::new(0, 0),
\*                 |acc, x| acc + Duration::from_millis(x.track.duration_ms as u64))
RECURSIVE fold_duration(_, _)
fold_duration(acc, tracks) ==
    IF tracks = <<>> THEN acc
    ELSE fold_duration(acc + Duration_from_millis(Head(tracks).duration_ms),
                       Tail(tracks))

\* mutant: tracks without an ID are skipped instead of unwrapped
TrackGroup_from_SkipMissing(tracks) ==
    IF tracks = <<>> THEN Panic
    ELSE LET with_id == SelectSeq(tracks, LAMBDA t : t.id.some) IN
         Groups(<<[name |-> tracks[1].album_name,
                   track_ids |-> [i \in DOMAIN with_id |-> with_id[i].id.v],
                   duration |-> fold_duration(0, tracks)]>>)

\* impl From<&[PlaylistTrack]> for TrackGroup: panics on an empty slice
\* (assert!) and on a track without an ID (unwrap)
TrackGroup_from(tracks) ==
    IF tracks = <<>> THEN Panic
    ELSE IF \E i \in DOMAIN tracks : ~is_some(tracks[i].id) THEN Panic
    ELSE Groups(<<[name |-> tracks[1].album_name,
                   track_ids |-> [i \in DOMAIN tracks |-> tracks[i].id.v],
                   duration |-> fold_duration(0, tracks)]>>)

\* mutant: the position of the first track of the same album, which is 0
position_differing_SameAlbum(tracks) ==
    IF \E i \in DOMAIN tracks : tracks[i].album_id = tracks[1].album_id
    THEN Some(0)
    ELSE None

\* src_tracks.iter().position(|t| t.track.album.id != src_tracks[0].track.album.id):
\* the index, from 0, of the first track of another album than the first track's
position_differing(tracks) ==
    IF \E i \in DOMAIN tracks : tracks[i].album_id # tracks[1].album_id
    THEN Some((CHOOSE i \in DOMAIN tracks :
                  /\ tracks[i].album_id # tracks[1].album_id
                  /\ \A j \in 1..(i - 1) : tracks[j].album_id = tracks[1].album_id) - 1)
    ELSE None

\* mutant: the split falls one track after the album boundary
split_idx_OffByOne(tracks) ==
    IF position_differing(tracks).some
    THEN position_differing(tracks).v + 1
    ELSE Len(tracks)

\* .position(...).unwrap_or(src_tracks.len())
split_idx(tracks) == unwrap_or(position_differing(tracks), Len(tracks))

MinAlbumSecs == 600

\* mutant: a group of exactly ten minutes is kept
IsAlbum_AtLeast(duration) == duration >= Duration_from_secs(MinAlbumSecs)

\* group.duration > Duration::from_secs(600u64)
IsAlbum(duration) == duration > Duration_from_secs(MinAlbumSecs)

\* the while loop of partition_by_album, with out the groups pushed so far
RECURSIVE partition_by_album_loop(_, _)
partition_by_album_loop(tracks, acc) ==
    IF tracks = <<>> THEN Groups(acc)
    ELSE IF ~is_some(tracks[1].album_id) THEN Panic
    ELSE LET k == split_idx(tracks)
             next_tracks == SubSeq(tracks, 1, k)
             remaining == SubSeq(tracks, k + 1, Len(tracks))
             group == TrackGroup_from(next_tracks)
         IN  IF group.panic THEN Panic
             ELSE IF IsAlbum(group.groups[1].duration)
             THEN partition_by_album_loop(remaining, acc \o group.groups)
             ELSE partition_by_album_loop(remaining, acc)

partition_by_album(tracks) == partition_by_album_loop(tracks, <<>>)

\* mutant: the band includes its lower end
IsWholePlaylist_Inclusive(duration) ==
    /\ duration >= Duration_from_secs(60 * 45)
    /\ duration < Duration_from_secs(60 * 90)

\* duration > Duration::from_secs(60u64 * 45) && duration < Duration::from_secs(60u64 * 90)
IsWholePlaylist(duration) ==
    /\ duration > Duration_from_secs(60 * 45)
    /\ duration < Duration_from_secs(60 * 90)

partition_groups(name, tracks) ==
    LET duration == fold_duration(0, tracks) IN
    IF IsWholePlaylist(duration)
    THEN LET group == TrackGroup_from(tracks) IN
         IF group.panic THEN Panic
         ELSE Groups(<<[group.groups[1] EXCEPT !.name = name]>>)
    ELSE partition_by_album(tracks)

\* partition_by_album applied to the input
PartitionByAlbum ==
    /\ pc = "input"
    /\ groups' = partition_by_album(src_tracks)
    /\ pc' = "partition_by_album"
    /\ UNCHANGED <<src_tracks, playlist_name>>
    /\ UNCHANGED <<api_vars, fetch_vars, ret, set_vars, asm_vars>>
    /\ UNCHANGED orch_vars

\* partition_groups applied to the input
PartitionGroups ==
    /\ pc = "input"
    /\ groups' = partition_groups(playlist_name, src_tracks)
    /\ pc' = "partition_groups"
    /\ UNCHANGED <<src_tracks, playlist_name>>
    /\ UNCHANGED <<api_vars, fetch_vars, ret, set_vars, asm_vars>>
    /\ UNCHANGED orch_vars

(***************************************************************************)
(* create_playlist (the assembler).                                        *)
(***************************************************************************)
\* mutant: the default goal is 1200 seconds
goal_duration_Seconds == unwrap_or(goal, Duration_from_secs(1200))

\* goal_duration.unwrap_or(Duration::from_secs(60u64 * 1200))
goal_duration == unwrap_or(goal, Duration_from_secs(60 * 1200))

\* mutant: the loop never stops early
GoalExceeded_Never(duration, goal_d) == FALSE

\* mutant: the loop stops as soon as the goal is reached
GoalExceeded_AtGoal(duration, goal_d) == duration >= goal_d

\* playlist_duration > goal_duration
GoalExceeded(duration, goal_d) == duration > goal_d

\* mutant: the last track of a group is left out
push_ids_DropLast(ids, group) ==
    ids \o SubSeq(group.track_ids, 1, Len(group.track_ids) - 1)

\* for id in group.track_ids.iter() { out.push(id.clone()); }
push_ids(ids, group) == ids \o group.track_ids

Permutations(n) == {p \in [1..n -> 1..n] : \A i, j \in 1..n : p[i] = p[j] => i = j}

\* src.shuffle(&mut rng): any permutation of src
Shuffle ==
    /\ pc = "shuffle"
    /\ \E p \in Permutations(Len(groups_in)) :
          src' = [i \in 1..Len(groups_in) |-> groups_in[p[i]]]
    /\ playlist_duration' = 0
    /\ out_ids' = <<>>
    /\ idx' = 0
    /\ pc' = "walk"
    /\ UNCHANGED <<groups_in, goal>>
    /\ UNCHANGED <<api_vars, fetch_vars, ret, set_vars, group_vars>>
    /\ UNCHANGED orch_vars

\* one iteration of the for loop that appends the group
AppendGroup ==
    /\ pc = "walk"
    /\ idx < Len(src)
    /\ ~GoalExceeded(playlist_duration, goal_duration)
    /\ out_ids' = push_ids(out_ids, src[idx + 1])
    /\ playlist_duration' = playlist_duration + src[idx + 1].duration
    /\ idx' = idx + 1
    /\ UNCHANGED <<pc, groups_in, src, goal>>
    /\ UNCHANGED <<api_vars, fetch_vars, ret, set_vars, group_vars>>
    /\ UNCHANGED orch_vars

\* if playlist_duration > goal_duration { break }, then out is returned
Break ==
    /\ pc = "walk"
    /\ idx < Len(src)
    /\ GoalExceeded(playlist_duration, goal_duration)
    /\ pc' = "done"
    /\ UNCHANGED <<groups_in, src, goal, idx, playlist_duration, out_ids>>
    /\ UNCHANGED <<api_vars, fetch_vars, ret, set_vars, group_vars>>
    /\ UNCHANGED orch_vars

\* the for loop has visited every group; out is returned
Exhausted ==
    /\ pc = "walk"
    /\ idx = Len(src)
    /\ pc' = "done"
    /\ UNCHANGED <<groups_in, src, goal, idx, playlist_duration, out_ids>>
    /\ UNCHANGED <<api_vars, fetch_vars, ret, set_vars, group_vars>>
    /\ UNCHANGED orch_vars

(***************************************************************************)
(* Idle values of the components a specification does not run.             *)
(***************************************************************************)
FetchIdle == /\ remote = <<>>
             /\ changes = 0
             /\ total = 0
             /\ offset = 0
             /\ out = <<>>
             /\ pages = <<>>
SetIdle == /\ track_ids = <<>>
           /\ chunk = 0
           /\ dest = <<>>
           /\ log = <<>>
GroupIdle == /\ src_tracks = <<>>
             /\ playlist_name = ""
             /\ groups = Groups(<<>>)
OrchIdle == /\ phase = ""
            /\ library = <<>>
            /\ playlists = <<>>
            /\ pl_idx = 0
            /\ all_groups = <<>>
            /\ fetched = <<>>
            /\ lookup = <<>>
            /\ playlist_id = None
            /\ create_log = <<>>
            /\ result = Pending
AsmIdle == /\ groups_in = <<>>
           /\ src = <<>>
           /\ goal = None
           /\ idx = 0
           /\ playlist_duration = 0
           /\ out_ids = <<>>

InitFetch ==
    /\ pc = "meta_call"
    /\ ApiIdle
    /\ \E k \in 0..MaxItems : remote = [i \in 1..k |-> i]
    /\ changes = 0
    /\ total = 0
    /\ offset = 0
    /\ out = <<>>
    /\ pages = <<>>
    /\ ret = Pending
    /\ SetIdle /\ GroupIdle /\ AsmIdle /\ OrchIdle

NextFetch ==
    \/ FetchOk
    \/ FetchRateLimited
    \/ FetchErr
    \/ GetAllMeta
    \/ GetAllPage
    \/ RemoteGrow
    \/ RemoteShrink

SpecFetch == InitFetch /\ [][NextFetch]_vars

\* every call of the retry wrapper returns and get_all keeps running: a
\* step that can be taken is eventually taken
SpecFetchLive == SpecFetch /\ WF_vars(NextFetch)

\* the playlist's earlier contents: none, or tracks that are not in track_ids
OldContents == {<<>>, <<0, 0>>}

InitSetPlaylist ==
    /\ pc = "clear_call"
    /\ ApiIdle
    /\ \E n \in 0..MaxTrackIds : track_ids = [i \in 1..n |-> i]
    /\ chunk = 0
    /\ dest \in OldContents
    /\ log = <<>>
    /\ ret = Pending
    /\ FetchIdle /\ GroupIdle /\ AsmIdle /\ OrchIdle

NextSetPlaylist ==
    \/ SetOk
    \/ SetRateLimited
    \/ SetErr
    \/ SetPlaylistClear
    \/ SetPlaylistAdd

SpecSetPlaylist == InitSetPlaylist /\ [][NextSetPlaylist]_vars

(***************************************************************************)
(* Inputs of the grouper: track lists of up to MaxTracks tracks.  The      *)
(* track at position i has ID i or none (the code never compares track     *)
(* IDs), an album or none, and a duration whose sums meet and cross the    *)
(* thresholds: 300000 + 300000 is exactly ten minutes, 600001 + 2100000    *)
(* is inside the whole-playlist band, 300000 + 300000 + 2100000 and        *)
(* 300000 + 300000 + 4800000 are exactly its ends.                         *)
(***************************************************************************)
AlbumIds == {None, Some("a"), Some("b")}
AlbumName(album_id) == IF ~album_id.some THEN "Local files"
                       ELSE IF album_id.v = "a" THEN "Album A" ELSE "Album B"
DurationsMs == {300000, 600001, 2100000, 4800000}
\* a playlist can be named like one of its albums
PlaylistNames == {"Album A", "Live Set"}

Track(i, has_id, album_id, duration_ms) ==
    [id |-> IF has_id THEN Some(i) ELSE None,
     album_id |-> album_id,
     album_name |-> AlbumName(album_id),
     duration_ms |-> duration_ms]

InitGroup ==
    /\ pc = "input"
    /\ \E n \in 0..MaxTracks :
          \E has_id \in [1..n -> BOOLEAN], album \in [1..n -> AlbumIds],
             duration_ms \in [1..n -> DurationsMs] :
             src_tracks = [i \in 1..n |-> Track(i, has_id[i], album[i], duration_ms[i])]
    /\ playlist_name \in PlaylistNames
    /\ groups = Groups(<<>>)
    /\ ApiIdle /\ FetchIdle /\ SetIdle /\ AsmIdle /\ OrchIdle
    /\ ret = Pending

NextGroup ==
    \/ PartitionByAlbum
    \/ PartitionGroups

SpecGroup == InitGroup /\ [][NextGroup]_vars

(***************************************************************************)
(* Inputs of create_playlist: up to MaxGroups groups.  The group at        *)
(* position i holds one or two track IDs of its own (10 i + 1, 10 i + 2)   *)
(* and lasts 50 minutes, 60 minutes or just over the default goal; the     *)
(* goal is absent, 50 minutes or 100 minutes.                              *)
(***************************************************************************)
GroupDurationsMs == {3000000, 3600000, 72000001}
Goals == {None, Some(3000000), Some(6000000)}

Group(i, two, duration) ==
    [name |-> "Album",
     track_ids |-> IF two THEN <<10 * i + 1, 10 * i + 2>> ELSE <<10 * i + 1>>,
     duration |-> duration]

InitAssemble ==
    /\ pc = "shuffle"
    /\ \E n \in 0..MaxGroups :
          \E two \in [1..n -> BOOLEAN], duration \in [1..n -> GroupDurationsMs] :
             groups_in = [i \in 1..n |-> Group(i, two[i], duration[i])]
    /\ goal \in Goals
    /\ src = <<>>
    /\ idx = 0
    /\ playlist_duration = 0
    /\ out_ids = <<>>
    /\ ApiIdle /\ FetchIdle /\ SetIdle /\ GroupIdle /\ OrchIdle
    /\ ret = Pending

NextAssemble ==
    \/ Shuffle
    \/ AppendGroup
    \/ Break
    \/ Exhausted

SpecAssemble == InitAssemble /\ [][NextAssemble]_vars

(***************************************************************************)
(* shuffle_library: load_groups, create_playlist,                          *)
(* get_or_create_shuffle_playlist_id and set_playlist in sequence.  The    *)
(* called functions run their own steps (get_all, call_api, the assembler, *)
(* set_playlist) and end at pc = "done", where the caller, named by phase, *)
(* goes on; shuffle_library has returned at pc = "exit".  A playlist is    *)
(* [id, name]; every playlist holds one track of its own.                  *)
(***************************************************************************)
MaxPlaylists == 2    \* playlists of the user's library at the start

\* the names the playlist at position i of the library can have: "Shuffle"
\* and a name of the user's own at every position, the other names of the
\* denylist at the first position or at the later ones
LibraryNames(i) ==
    {"Shuffle", "Mix"} \cup (IF i = 1 THEN {"Discover Weekly", "Starred"}
                                      ELSE {"Liked from Radio"})

Playlist(i, name) == [id |-> i, name |-> name]

\* the tracks of a playlist: one track, of just over the default goal for
\* the first playlist of the library and of 50 minutes for the others
TracksOf(pl) ==
    <<Track(10 * pl.id + 1, TRUE, Some("a"),
            IF pl.id = 1 THEN 72000001 ELSE 3000000)>>

\* the ID the service gives a playlist it creates
NewPlaylistId == MaxPlaylists + 1

\* a panic of the grouper ends the run without a Result
Aborted == [tag |-> "panic", page |-> NoPage, err |-> NoError, val |-> <<>>]

\* mutant: the error of a call is dropped
is_err_Swallowed(r) == FALSE

\* the ? operator: the Result is an Err, which the caller returns at once
is_err(r) == r.tag = "err"

\* Self::get_all(|off| ...) is entered for a remote collection
StartGetAll(items) ==
    /\ pc' = "meta_call"
    /\ remote' = items
    /\ changes' = 0
    /\ total' = 0
    /\ offset' = 0
    /\ out' = <<>>
    /\ pages' = <<>>
    /\ ret' = Pending
    /\ ApiEnter

\* the locals of a get_all or call_api that has returned are gone
Returned ==
    /\ remote' = <<>>
    /\ changes' = 0
    /\ total' = 0
    /\ offset' = 0
    /\ out' = <<>>
    /\ pages' = <<>>
    /\ ret' = Pending
    /\ ApiEnter

\* shuffle_library returns r
Finish(r) ==
    /\ result' = r
    /\ pc' = "exit"
    /\ UNCHANGED <<api_vars, fetch_vars, ret, set_vars, group_vars, asm_vars>>
    /\ UNCHANGED <<phase, library, playlists, pl_idx, all_groups, fetched,
                   lookup, playlist_id, create_log>>

\* mutant: the destination playlist's name is not on the denylist
banned_playlist_names_NoShuffle == {"Discover Weekly", "Starred", "Liked from Radio"}

banned_playlist_names == {"Discover Weekly", "Starred", "Liked from Radio", "Shuffle"}

\* the first position from i on whose playlist is not skipped by
\* if banned_playlist_names.contains(playlist.name.as_str()) { continue }
NextSource(i, pls) ==
    LET c == {j \in i..Len(pls) : pls[j].name \notin banned_playlist_names} IN
    IF c = {} THEN Len(pls) + 1
    ELSE CHOOSE j \in c : \A k \in c : j <= k

\* the for loop of load_groups from position i on, with gs the groups so
\* far: the next playlist that is not banned has its tracks fetched; after
\* the last one load_groups returns and create_playlist(groups, None) starts
LoadGroupsLoop(i, pls, gs) ==
    LET j == NextSource(i, pls) IN
    /\ pl_idx' = j
    /\ all_groups' = gs
    /\ IF j <= Len(pls)
       THEN /\ fetched' = Append(fetched, pls[j].id)
            /\ phase' = "load_tracks"
            /\ StartGetAll(TracksOf(pls[j]))
            /\ UNCHANGED asm_vars
       ELSE /\ fetched' = fetched
            /\ phase' = "assemble"
            /\ pc' = "shuffle"
            /\ Returned
            /\ groups_in' = gs
            /\ goal' = None
            /\ UNCHANGED <<src, idx, playlist_duration, out_ids>>

\* for playlist in client.current_user_playlists()? { ... }
LoadGroupsListed ==
    /\ phase = "load_list"
    /\ pc = "done"
    /\ IF is_err(ret)
       THEN Finish(ret)
       ELSE /\ playlists' = ret.val
            /\ LoadGroupsLoop(1, ret.val, <<>>)
            /\ UNCHANGED <<set_vars, group_vars>>
            /\ UNCHANGED <<library, lookup, playlist_id, create_log, result>>

\* let tracks = client.playlist_tracks(&playlist)?; partition_groups;
\* groups.append(&mut pl_groups)
TracksLoaded ==
    /\ phase = "load_tracks"
    /\ pc = "done"
    /\ IF is_err(ret)
       THEN Finish(ret)
       ELSE LET pl_groups == partition_groups(playlists[pl_idx].name, ret.val) IN
            IF pl_groups.panic
            THEN Finish(Aborted)
            ELSE /\ LoadGroupsLoop(pl_idx + 1, playlists,
                                   all_groups \o pl_groups.groups)
                 /\ UNCHANGED <<set_vars, group_vars>>
                 /\ UNCHANGED <<library, playlists, lookup, playlist_id,
                                create_log, result>>

\* let track_ids = create_playlist(groups, None), which consumes groups;
\* then get_or_create_shuffle_playlist_id lists the library
AssembleDone ==
    /\ phase = "assemble"
    /\ pc = "done"
    /\ track_ids' = out_ids
    /\ groups_in' = <<>>
    /\ src' = <<>>
    /\ goal' = None
    /\ idx' = 0
    /\ playlist_duration' = 0
    /\ out_ids' = <<>>
    /\ phase' = "dest_list"
    /\ StartGetAll(library)
    /\ playlists' = <<>>
    /\ pl_idx' = 0
    /\ all_groups' = <<>>
    /\ fetched' = <<>>
    /\ UNCHANGED <<chunk, dest, log, group_vars>>
    /\ UNCHANGED <<library, lookup, playlist_id, create_log, result>>

ShuffleName == "Shuffle"

\* mutant: the last playlist of that name is picked
find_shuffle_Last(pls) ==
    LET c == {j \in DOMAIN pls : pls[j].name = ShuffleName} IN
    IF c = {} THEN None
    ELSE Some(CHOOSE j \in c : \A k \in c : j >= k)

\* for playlist in ... { if playlist.name.as_str() == name { return Ok(playlist.id) } }:
\* the position of the first playlist of that name
find_shuffle(pls) ==
    LET c == {j \in DOMAIN pls : pls[j].name = ShuffleName} IN
    IF c = {} THEN None
    ELSE Some(CHOOSE j \in c : \A k \in c : j <= k)

\* client.set_playlist(playlist_id.as_str(), track_ids.as_slice()) is
\* entered; old is what the playlist holds
StartSetPlaylist(old) ==
    /\ phase' = "set"
    /\ pc' = "clear_call"
    /\ chunk' = 0
    /\ dest' = old
    /\ log' = <<>>
    /\ Returned
    /\ UNCHANGED track_ids

\* the search of get_or_create_shuffle_playlist_id in the listing
LookupListed ==
    /\ phase = "dest_list"
    /\ pc = "done"
    /\ IF is_err(ret)
       THEN Finish(ret)
       ELSE /\ lookup' = ret.val
            /\ LET found == find_shuffle(ret.val) IN
               IF found.some
               THEN /\ playlist_id' = Some(ret.val[found.v].id)
                    /\ StartSetPlaylist(<<0, 0>>)
               ELSE /\ playlist_id' = playlist_id
                    /\ phase' = "create"
                    /\ pc' = "create_call"
                    /\ Returned
                    /\ UNCHANGED set_vars
            /\ UNCHANGED <<group_vars, asm_vars>>
            /\ UNCHANGED <<library, playlists, pl_idx, all_groups, fetched,
                           create_log, result>>

\* user_playlist_create(.., name, ..) succeeds
CreateOk ==
    /\ pc = "create_call"
    /\ create_log' = Append(create_log, [name |-> ShuffleName, tag |-> "ok"])
    /\ Func(OkVal(NewPlaylistId))
    /\ UNCHANGED <<fetch_vars, ret, set_vars, group_vars, asm_vars>>
    /\ UNCHANGED <<phase, library, playlists, pl_idx, all_groups, fetched,
                   lookup, playlist_id, result>>

\* user_playlist_create fails with a rate-limit error
CreateRateLimited ==
    /\ pc = "create_call"
    /\ Len(api_results) < MaxRateLimits
    /\ create_log' = Append(create_log, [name |-> ShuffleName, tag |-> "limited"])
    /\ \E t \in RetryAfter : Func(Err(RateLimited(t)))
    /\ UNCHANGED <<fetch_vars, ret, set_vars, group_vars, asm_vars>>
    /\ UNCHANGED <<phase, library, playlists, pl_idx, all_groups, fetched,
                   lookup, playlist_id, result>>

\* user_playlist_create fails with another error
CreateErr ==
    /\ pc = "create_call"
    /\ create_log' = Append(create_log, [name |-> ShuffleName, tag |-> "err"])
    /\ \E e \in OtherErrors : Func(Err(e))
    /\ UNCHANGED <<fetch_vars, ret, set_vars, group_vars, asm_vars>>
    /\ UNCHANGED <<phase, library, playlists, pl_idx, all_groups, fetched,
                   lookup, playlist_id, result>>

\* Ok(Self::call_api(|| ...user_playlist_create(...))?.id), then set_playlist
Created ==
    /\ pc = "create_ret"
    /\ IF is_err(api_ret)
       THEN Finish(api_ret)
       ELSE /\ playlist_id' = Some(api_ret.val)
            /\ StartSetPlaylist(<<>>)
            /\ UNCHANGED <<group_vars, asm_vars>>
            /\ UNCHANGED <<library, playlists, pl_idx, all_groups, fetched,
                           lookup, create_log, result>>

\* shuffle_library returns what set_playlist returned
SetDone ==
    /\ phase = "set"
    /\ pc = "done"
    /\ Finish(ret)

InitShuffle ==
    /\ phase = "load_list"
    /\ \E n \in 0..MaxPlaylists :
          \E name \in [1..n -> UNION {LibraryNames(i) : i \in 1..n}] :
             /\ \A i \in 1..n : name[i] \in LibraryNames(i)
             /\ library = [i \in 1..n |-> Playlist(i, name[i])]
    /\ pc = "meta_call"
    /\ remote = library
    /\ changes = 0
    /\ total = 0
    /\ offset = 0
    /\ out = <<>>
    /\ pages = <<>>
    /\ ret = Pending
    /\ playlists = <<>>
    /\ pl_idx = 0
    /\ all_groups = <<>>
    /\ fetched = <<>>
    /\ lookup = <<>>
    /\ playlist_id = None
    /\ create_log = <<>>
    /\ result = Pending
    /\ ApiIdle /\ SetIdle /\ GroupIdle /\ AsmIdle

NextShuffle ==
    \/ FetchOk
    \/ FetchRateLimited
    \/ FetchErr
    \/ GetAllMeta
    \/ GetAllPage
    \/ LoadGroupsListed
    \/ TracksLoaded
    \/ Shuffle
    \/ AppendGroup
    \/ Break
    \/ Exhausted
    \/ AssembleDone
    \/ LookupListed
    \/ CreateOk
    \/ CreateRateLimited
    \/ CreateErr
    \/ Created
    \/ SetOk
    \/ SetRateLimited
    \/ SetErr
    \/ SetPlaylistClear
    \/ SetPlaylistAdd
    \/ SetDone

SpecShuffle == InitShuffle /\ [][NextShuffle]_vars

(***************************************************************************)
(* Claims about get_all and call_api, checked under SpecFetch.             *)
(***************************************************************************)
IsRateLimitResult(r) == r.tag = "err" /\ r.err.kind = "RateLimited"
IsOtherErrResult(r) == r.tag = "err" /\ r.err.kind # "RateLimited"

\* C1: when the collection does not change, every page the loop loads is
\* non-empty and no load fails with a non-rate-limit error, get_all returns
\* Ok with exactly the items of the collection, each once, in order; the
\* pages loaded are those items split at the page boundaries.
C1_FetchAllReturnsAllItems ==
    (/\ pc = "done"
     /\ changes = 0
     /\ api_ret.tag # "err"
     /\ \A i \in DOMAIN pages : pages[i] # <<>>)
    => /\ ret = OkVal(remote)
       /\ Flatten(pages) = remote

\* C1 witness: all MaxItems items were returned from pages of different sizes
C1_Witness ==
    /\ pc = "done"
    /\ changes = 0
    /\ ret = OkVal(remote)
    /\ Len(remote) = MaxItems
    /\ \A i \in DOMAIN pages : pages[i] # <<>>
    /\ \E i, j \in DOMAIN pages : Len(pages[i]) # Len(pages[j])

\* C2: a zero-item page returned to the loop (so at an offset below the
\* total learned from the first call) is the last page requested, and
\* get_all then returns Ok with exactly the items of the pages before it.
C2_EmptyPageStops ==
    \A i \in DOMAIN pages :
        pages[i] = <<>> =>
            /\ i = Len(pages)
            /\ pc \in {"page_ret", "done"}
            /\ pc = "done" => /\ ret = OkVal(Flatten(SubSeq(pages, 1, i - 1)))
                              /\ ret.val = out

\* C2 witness: get_all returned after an empty page that followed a
\* non-empty one, short of the total
C2_Witness ==
    /\ pc = "done"
    /\ ret.tag = "ok"
    /\ Len(pages) >= 2
    /\ pages[Len(pages)] = <<>>
    /\ out # <<>>
    /\ offset < total

\* C3: when call_api returns Ok after func failed N times with a rate-limit
\* error and then succeeded, it invoked func N+1 times and slept N times,
\* the i-th sleep lasting the retry-after value of the i-th error, or 1
\* second when it carries none; the value returned is the page func served.
C3_RetryThenSuccess ==
    api_ret.tag = "ok" =>
        LET N == Cardinality({i \in DOMAIN api_results :
                                 IsRateLimitResult(api_results[i])}) IN
        /\ Len(api_results) = N + 1
        /\ \A i \in 1..N : IsRateLimitResult(api_results[i])
        /\ api_results[N + 1].tag = "ok"
        /\ api_calls = N + 1
        /\ Len(api_sleeps) = N
        /\ \A i \in 1..N :
              api_sleeps[i] = IF api_results[i].err.timeout.some
                              THEN api_results[i].err.timeout.v
                              ELSE 1
        /\ pc \in {"meta_ret", "page_ret"} =>
              /\ api_ret.page.total = Len(remote)
              /\ api_ret.page.items =
                    SubSeq(remote, GetPageArgAt(pc) + 1,
                           GetPageArgAt(pc) + Len(api_ret.page.items))

\* C3 witness: success after two rate limits, one without and one with a
\* retry-after value
C3_Witness ==
    /\ api_ret.tag = "ok"
    /\ api_calls = 3
    /\ api_sleeps = <<1, 3>>

\* C4: call_api returns an error only when func failed with a
\* non-rate-limit error: it returns that error, at once (func is not
\* invoked again and no sleep follows); rate-limit errors are never
\* returned.
C4_OnlyOtherErrorsReturned ==
    /\ api_ret.tag = "err" =>
          LET n == Len(api_results) IN
          /\ n >= 1
          /\ api_ret.err.kind # "RateLimited"
          /\ IsOtherErrResult(api_results[n])
          /\ api_ret.err = api_results[n].err
          /\ \A i \in 1..(n - 1) : IsRateLimitResult(api_results[i])
          /\ api_calls = n
          /\ Len(api_sleeps) = n - 1
    /\ \A i \in DOMAIN api_results :
          IsOtherErrResult(api_results[i]) =>
              /\ i = Len(api_results)
              /\ api_ret = Err(api_results[i].err)
    /\ (pc = "done" /\ ret.tag = "err") => ret.err.kind # "RateLimited"

\* C4 witness: a non-rate-limit error returned after MaxRateLimits rate limits
C4_Witness ==
    /\ api_ret.tag = "err"
    /\ Len(api_sleeps) = MaxRateLimits
    /\ pc = "done"
    /\ ret = Err(api_ret.err)

(***************************************************************************)
(* Claims about set_playlist, checked under SpecSetPlaylist.               *)
(***************************************************************************)
IsOkCall(c) == c.tag = "ok"
IdsOf(calls) == [i \in DOMAIN calls |-> calls[i].ids]

\* C5: when set_playlist returns Ok, whatever rate limits occurred: the
\* first successful remote call is the replace with the empty list (and no
\* add call was issued before it), every add call carried 1 to 100 IDs,
\* the successful calls after the clear are adds whose batches, in call
\* order, concatenate to track_ids (each batch added once), and the
\* playlist then holds exactly track_ids; for an empty track_ids the clear
\* is the only remote call that succeeded.
C5_ClearThenOrderedBatches ==
    (pc = "done" /\ ret.tag = "ok") =>
        LET okc == SelectSeq(log, IsOkCall)
            first == CHOOSE i \in DOMAIN log : log[i].tag = "ok" /\
                        \A j \in 1..(i - 1) : log[j].tag # "ok"
        IN
        /\ okc # <<>>
        /\ okc[1] = [op |-> "replace", ids |-> <<>>, tag |-> "ok"]
        /\ \A j \in 1..first : log[j].op = "replace"
        /\ \A j \in DOMAIN log :
              log[j].op = "add" => Len(log[j].ids) \in 1..100
        /\ \A j \in 2..Len(okc) : okc[j].op = "add"
        /\ Flatten(IdsOf(Tail(okc))) = track_ids
        /\ dest = track_ids
        /\ track_ids = <<>> => Len(okc) = 1
        /\ \A j \in DOMAIN log : log[j].tag # "err"

\* C5 witness: more than two batches were added, the last one shorter,
\* with rate limits on the clear and on an add
C5_Witness ==
    /\ pc = "done"
    /\ ret.tag = "ok"
    /\ Len(track_ids) = 2 * ChunkSize + 1
    /\ Len(SelectSeq(log, IsOkCall)) = 4
    /\ log[1] = [op |-> "replace", ids |-> <<>>, tag |-> "limited"]
    /\ \E j \in DOMAIN log : log[j].op = "add" /\ log[j].tag = "limited"
    /\ dest = track_ids

(***************************************************************************)
(* Claims about the grouper, checked under SpecGroup.  A group's track     *)
(* IDs are the positions of its tracks in the input.                       *)
(***************************************************************************)
NTracks == Len(src_tracks)

\* src_tracks[i..j] is a maximal run of tracks of one album
IsMaximalRun(i, j) ==
    /\ i <= j
    /\ \A k \in i..j : src_tracks[k].album_id = src_tracks[i].album_id
    /\ i > 1 => src_tracks[i - 1].album_id # src_tracks[i].album_id
    /\ j < NTracks => src_tracks[j + 1].album_id # src_tracks[j].album_id

MaximalRuns == {r \in (1..NTracks) \X (1..NTracks) : IsMaximalRun(r[1], r[2])}

RECURSIVE SumMs(_, _)
SumMs(i, j) == IF i > j THEN 0 ELSE src_tracks[j].duration_ms + SumMs(i, j - 1)

Positions(i, j) == [k \in 1..(j - i + 1) |-> i + k - 1]

AllHaveIds == \A i \in 1..NTracks : src_tracks[i].id.some
OneAlbum == /\ NTracks >= 1
            /\ src_tracks[1].album_id.some
            /\ \A i \in 1..NTracks : src_tracks[i].album_id = src_tracks[1].album_id

\* C6: every group partition_by_album returns is a contiguous run of the
\* input, in input order, whose tracks share one album ID, and the run is
\* maximal: the track before it and the track after it are of another
\* album; the groups appear in input order.
C6_GroupsAreMaximalAlbumRuns ==
    (pc = "partition_by_album" /\ ~groups.panic) =>
        /\ \A m \in DOMAIN groups.groups :
              LET ids == groups.groups[m].track_ids IN
              /\ ids # <<>>
              /\ ids[1] \in 1..NTracks
              /\ ids[Len(ids)] \in 1..NTracks
              /\ ids = Positions(ids[1], ids[Len(ids)])
              /\ IsMaximalRun(ids[1], ids[Len(ids)])
        /\ \A m \in 1..(Len(groups.groups) - 1) :
              LET a == groups.groups[m].track_ids
                  b == groups.groups[m + 1].track_ids
              IN  a[Len(a)] < b[1]

\* C6 witness: two groups, the first of two adjacent tracks of one album
C6_Witness ==
    /\ pc = "partition_by_album"
    /\ ~groups.panic
    /\ Len(groups.groups) = 2
    /\ groups.groups[1].track_ids = <<1, 2>>
    /\ groups.groups[2].track_ids = <<3>>

\* C7: the groups partition_by_album returns are exactly the maximal
\* same-album runs whose durations sum to more than 600 seconds, one group
\* per such run: a run of 600 000 ms or less is absent, a longer one is
\* present.
C7_ExactlyRunsOverTenMinutes ==
    (pc = "partition_by_album" /\ ~groups.panic) =>
        LET kept == {r \in MaximalRuns : SumMs(r[1], r[2]) > 600000} IN
        /\ {groups.groups[m].track_ids : m \in DOMAIN groups.groups}
              = {Positions(r[1], r[2]) : r \in kept}
        /\ Len(groups.groups) = Cardinality(kept)
        /\ \A m \in DOMAIN groups.groups :
              groups.groups[m].duration > 600000

\* C7 witness: a run of exactly 600 000 ms is dropped, a longer run is kept
C7_Witness ==
    /\ pc = "partition_by_album"
    /\ ~groups.panic
    /\ NTracks = 3
    /\ IsMaximalRun(1, 2)
    /\ SumMs(1, 2) = 600000
    /\ Len(groups.groups) = 1
    /\ groups.groups[1].track_ids = <<3>>

\* the one group holding all the input's tracks in order, with their summed
\* duration
IsWholeInput(g) ==
    /\ g.track_ids = Positions(1, NTracks)
    /\ g.duration = SumMs(1, NTracks)

\* C8 as stated: for every non-empty track list of a single album ID
\* (taking its tracks to have IDs), partition_by_album returns exactly one
\* group, of all the tracks in order, with their summed duration.
C8_Original ==
    (pc = "partition_by_album" /\ OneAlbum /\ AllHaveIds) =>
        /\ ~groups.panic
        /\ Len(groups.groups) = 1
        /\ IsWholeInput(groups.groups[1])

\* C8 amended: for every non-empty track list of a single album ID whose
\* tracks all have IDs, partition_by_album returns exactly one group, of all
\* the tracks in order with their summed duration, when that duration
\* exceeds 600 seconds, and returns no group when it does not.
C8_SingleAlbumOneGroupIfOverTenMinutes ==
    (pc = "partition_by_album" /\ OneAlbum /\ AllHaveIds) =>
        /\ ~groups.panic
        /\ IF SumMs(1, NTracks) > 600000
           THEN /\ Len(groups.groups) = 1
                /\ IsWholeInput(groups.groups[1])
                /\ groups.groups[1].name = src_tracks[1].album_name
           ELSE groups.groups = <<>>

\* C8 witness: a single-album list of several tracks returned as one group
C8_Witness ==
    /\ pc = "partition_by_album"
    /\ OneAlbum
    /\ NTracks >= 2
    /\ \E i, j \in 1..NTracks : src_tracks[i].duration_ms # src_tracks[j].duration_ms
    /\ ~groups.panic
    /\ Len(groups.groups) = 1
    /\ IsWholeInput(groups.groups[1])

InBand == SumMs(1, NTracks) > 2700000 /\ SumMs(1, NTracks) < 5400000

\* partition_groups returned exactly one group, named after the playlist,
\* of all the tracks in order with the playlist's total duration
IsPlaylistGroup ==
    /\ ~groups.panic
    /\ Len(groups.groups) = 1
    /\ groups.groups[1].name = playlist_name
    /\ IsWholeInput(groups.groups[1])

\* C9 as stated: partition_groups returns the one playlist-named group of
\* all the tracks if and only if the total is strictly between 2700 and
\* 5400 seconds, and otherwise returns partition_by_album's result (taking
\* the tracks to have IDs).
C9_Original ==
    (pc = "partition_groups" /\ AllHaveIds) =>
        /\ IsPlaylistGroup <=> InBand
        /\ ~InBand => groups = partition_by_album(src_tracks)

\* C9 amended: when every track has an ID and the total is strictly
\* between 2700 and 5400 seconds, partition_groups returns the one
\* playlist-named group of all the tracks; for every other total (the ends
\* 2700 s and 5400 s and the empty playlist included) its result is exactly
\* partition_by_album's on the same tracks (which may itself be such a
\* group, when the album's name is the playlist's).
C9_BandGivesPlaylistGroup ==
    pc = "partition_groups" =>
        /\ (InBand /\ AllHaveIds) => IsPlaylistGroup
        /\ ~InBand => groups = partition_by_album(src_tracks)

\* C9 witness: a playlist of several albums inside the band comes back as
\* one group under the playlist's name
C9_Witness ==
    /\ pc = "partition_groups"
    /\ InBand
    /\ NTracks >= 2
    /\ src_tracks[1].album_id # src_tracks[2].album_id
    /\ IsPlaylistGroup
    /\ playlist_name = "Live Set"

(***************************************************************************)
(* Claims about create_playlist, checked under SpecAssemble.               *)
(***************************************************************************)
TrackIdsOf(gs) == [i \in DOMAIN gs |-> gs[i].track_ids]

RECURSIVE SumDurations(_, _)
SumDurations(gs, k) == IF k = 0 THEN 0 ELSE gs[k].duration + SumDurations(gs, k - 1)

GoalMs == IF goal.some THEN goal.v ELSE 72000000

\* src holds each input group exactly once (the input groups are pairwise
\* distinct: each has track IDs of its own)
IsPermutationOfInput ==
    /\ Len(src) = Len(groups_in)
    /\ \A j \in DOMAIN groups_in :
          Cardinality({i \in DOMAIN src : src[i] = groups_in[j]}) = 1

\* C10: the track IDs create_playlist has put out are the complete track-ID
\* lists, concatenated in order, of the first idx groups of a permutation
\* of the input groups (so each input group contributes all of its IDs, in
\* their order, or none, and none contributes twice), and no group was
\* appended after the running duration had exceeded the goal.
C10_WholeGroupsOfPermutationPrefix ==
    pc \in {"walk", "done"} =>
        /\ IsPermutationOfInput
        /\ idx \in 0..Len(src)
        /\ out_ids = Flatten(TrackIdsOf(SubSeq(src, 1, idx)))
        /\ \A j \in 1..idx : ~(SumDurations(src, j - 1) > GoalMs)
        /\ \A i \in DOMAIN groups_in :
              LET mine == SelectSeq(out_ids, LAMBDA t : t \div 10 = i) IN
              mine = <<>> \/ mine = groups_in[i].track_ids

\* C10 witness: create_playlist returned the groups of a proper, non-empty
\* prefix of a shuffled order that differs from the input order
C10_Witness ==
    /\ pc = "done"
    /\ Len(src) = MaxGroups
    /\ src # groups_in
    /\ idx \in 1..(Len(src) - 1)
    /\ Len(out_ids) > idx

\* the group at position j of the shuffled list is in the output
Included(j) == j <= idx

\* adding the group at position j takes the running total from at most
\* goal_d to more than goal_d
Crosses(j, goal_d) ==
    /\ SumDurations(src, j - 1) <= goal_d
    /\ SumDurations(src, j) > goal_d

\* C11: when create_playlist returns, a group of the shuffled list is in
\* the output exactly when the durations of the groups before it sum to at
\* most the goal; so the first group is always in, and with groups of 50
\* and 60 minutes and a goal of 100 minutes both are in, in either order.
C11_AppendedIffTotalBeforeWithinGoal ==
    pc = "done" =>
        /\ \A j \in 1..Len(src) :
              Included(j) <=> SumDurations(src, j - 1) <= GoalMs
        /\ Len(src) >= 1 => /\ Included(1)
                            /\ SubSeq(out_ids, 1, Len(src[1].track_ids))
                                  = src[1].track_ids
        /\ (/\ Len(src) = 2
            /\ {src[1].duration, src[2].duration} = {3000000, 3600000}
            /\ goal = Some(6000000))
           => /\ idx = 2
              /\ out_ids = src[1].track_ids \o src[2].track_ids

\* C11 witness: the 60-minute group first, the 50-minute group second, goal
\* 100 minutes, both in the output
C11_Witness ==
    /\ pc = "done"
    /\ Len(src) = 2
    /\ src[1].duration = 3600000
    /\ src[2].duration = 3000000
    /\ goal = Some(6000000)
    /\ idx = 2
    /\ playlist_duration > 6000000

\* C12 as stated: the group whose addition takes the running total across
\* the goal is not in the output.
C12_Original ==
    pc = "done" =>
        \A j \in 1..Len(src) : Crosses(j, GoalMs) => ~Included(j)

\* C12 amended: the group whose addition takes the running total across
\* the goal is in the output, with all its track IDs, and is the last group
\* in it: the group after it in the shuffled order is the first one left
\* out.
C12_CrossingGroupIsLastIncluded ==
    pc = "done" =>
        \A j \in 1..Len(src) :
            Crosses(j, GoalMs) =>
                /\ Included(j)
                /\ idx = j
                /\ playlist_duration = SumDurations(src, j)
                /\ SubSeq(out_ids, Len(out_ids) - Len(src[j].track_ids) + 1,
                          Len(out_ids)) = src[j].track_ids

\* C12 witness: the second group crossed the goal and is the last one in
\* the output, a third group is left out
C12_Witness ==
    /\ pc = "done"
    /\ Len(src) = 3
    /\ Crosses(2, GoalMs)
    /\ idx = 2
    /\ Len(out_ids) = Len(src[1].track_ids) + Len(src[2].track_ids)

\* C13 as stated: without an explicit goal, create_playlist's goal is 1200
\* hours (4 320 000 seconds): groups are appended while the total before
\* them is at most that (the total, in milliseconds, is compared in whole
\* seconds rounded up, which is the same comparison).
C13_Original ==
    (pc = "done" /\ goal = None) =>
        \A j \in 1..Len(src) :
            Included(j) <=> (SumDurations(src, j - 1) + 999) \div 1000 <= 4320000

\* C13 amended: without an explicit goal, create_playlist's goal is 1200
\* minutes (72 000 seconds, 20 hours): groups are appended while the total
\* before them is at most that.
C13_DefaultGoalIs1200Minutes ==
    (pc \in {"walk", "done"} /\ goal = None) =>
        /\ goal_duration = 72000 * 1000
        /\ pc = "done" =>
              \A j \in 1..Len(src) :
                  Included(j) <=> SumDurations(src, j - 1) <= 72000 * 1000

\* C13 witness: without an explicit goal, a group is left out after a
\* group of just over 72 000 seconds
C13_Witness ==
    /\ pc = "done"
    /\ goal = None
    /\ idx = 1
    /\ Len(src) >= 2
    /\ src[1].duration = 72000001

(***************************************************************************)
(* Further claims about the grouper, checked under SpecGroup.              *)
(***************************************************************************)
AllHaveAlbums == \A i \in 1..NTracks : src_tracks[i].album_id.some

\* C17: partition_groups aborts for every input that holds a track without
\* a track ID, inside the whole-playlist band and outside it, also when
\* the track's run would have been dropped by the 10-minute filter; and
\* partition_by_album aborts for every input that holds a track without an
\* album ID, wherever the track is.
C17_FailFastOnMissingIds ==
    /\ (pc = "partition_groups" /\ ~AllHaveIds) => groups.panic
    /\ (pc = "partition_by_album" /\ ~AllHaveAlbums) => groups.panic
    /\ (pc = "partition_by_album" /\ ~AllHaveIds) => groups.panic

\* C17 witness: outside the band, every album ID present, the only track
\* without an ID is the last one and forms a run of five minutes, which the
\* filter would drop; partition_groups aborted
C17_Witness ==
    /\ pc = "partition_groups"
    /\ NTracks = 3
    /\ ~InBand
    /\ AllHaveAlbums
    /\ src_tracks[1].id.some /\ src_tracks[2].id.some /\ ~src_tracks[3].id.some
    /\ IsMaximalRun(3, 3)
    /\ src_tracks[3].duration_ms = 300000
    /\ SumMs(1, 2) > 600000
    /\ groups.panic

RECURSIVE SumOfMembers(_)
SumOfMembers(ids) ==
    IF ids = <<>> THEN 0
    ELSE src_tracks[Head(ids)].duration_ms + SumOfMembers(Tail(ids))

\* C18: for every input (the empty list included) whose tracks all have
\* track IDs and album IDs, partition_groups and partition_by_album do not
\* abort (so the non-empty assertion of TrackGroup::from holds at every
\* construction), and every group they return has at least one track ID
\* and the summed duration of exactly its member tracks.
C18_GroupsNonEmptyAndDurationsConsistent ==
    (pc \in {"partition_groups", "partition_by_album"}
        /\ AllHaveIds /\ AllHaveAlbums) =>
        /\ ~groups.panic
        /\ \A m \in DOMAIN groups.groups :
              LET g == groups.groups[m] IN
              /\ g.track_ids # <<>>
              /\ \A k \in DOMAIN g.track_ids : g.track_ids[k] \in 1..NTracks
              /\ \A k, l \in DOMAIN g.track_ids :
                    g.track_ids[k] = g.track_ids[l] => k = l
              /\ g.duration = SumOfMembers(g.track_ids)

\* C18 witness: partition_groups returned two groups for three tracks that
\* all have IDs and album IDs
C18_Witness ==
    /\ pc = "partition_groups"
    /\ NTracks = 3
    /\ AllHaveIds /\ AllHaveAlbums
    /\ ~groups.panic
    /\ Len(groups.groups) = 2

(***************************************************************************)
(* Further claims about set_playlist, checked under SpecSetPlaylist.       *)
(***************************************************************************)
Cleared == \E j \in DOMAIN log : log[j].op = "replace" /\ log[j].tag = "ok"
AddFailed == log # <<>> /\ log[Len(log)].op = "add" /\ log[Len(log)].tag = "err"
IsPrefixOfTrackIds(s) ==
    /\ Len(s) <= Len(track_ids)
    /\ s = SubSeq(track_ids, 1, Len(s))

\* C20: once the clear call has succeeded, the playlist holds a prefix of
\* track_ids whose length is a multiple of 100 or the full length; a
\* non-rate-limit error of an add call is the last remote call of the run,
\* set_playlist returns that error, and the playlist then holds the proper
\* prefix made of the chunks added before the failed one.
C20_PrefixOfWholeChunksAndNoRollback ==
    /\ Cleared =>
          /\ IsPrefixOfTrackIds(dest)
          /\ Len(dest) % ChunkSize = 0 \/ Len(dest) = Len(track_ids)
    /\ \A j \in DOMAIN log : log[j].tag = "err" => j = Len(log)
    /\ AddFailed =>
          /\ Cleared
          /\ pc \in {"add_ret", "done"}
          /\ api_ret = Err(api_results[Len(api_results)].err)
          /\ api_ret.err \in OtherErrors
          /\ pc = "done" => ret = Err(api_ret.err)
          /\ Len(dest) = (chunk - 1) * ChunkSize
          /\ Len(dest) < Len(track_ids)
          /\ log[Len(log)].ids = Chunk(chunk)

\* C20 witness: the playlist held other tracks, the second add call failed
\* with a non-rate-limit error after a first chunk had been added, and
\* set_playlist returned the error with the playlist holding that chunk
C20_Witness ==
    /\ pc = "done"
    /\ AddFailed
    /\ ret.tag = "err"
    /\ chunk = 2
    /\ dest = Chunk(1)
    /\ Len(track_ids) > ChunkSize

(***************************************************************************)
(* Further claims about get_all, checked under SpecFetchLive.              *)
(***************************************************************************)
\* the first call of get_all has returned a page (a failed first call
\* leaves total at 0 and ends get_all with the error)
MetaLoaded ==
    CASE pc = "meta_call" -> FALSE
      [] pc = "meta_ret" -> api_ret.tag = "ok"
      [] pc = "done" -> ~(ret.tag = "err" /\ total = 0)
      [] OTHER -> TRUE

\* the successful page loads so far: the first call and the loop's pages
PageLoads == (IF MetaLoaded THEN 1 ELSE 0) + Len(pages)

\* C19: whenever the loop of get_all issues a request, its offset is the
\* number of items accumulated so far and is below the total the first
\* call reported; that total is set from the first call only and no later
\* page changes it; the pages loaded never outnumber total + 1; and
\* get_all terminates, whatever the page sizes and however the remote
\* collection grows or shrinks meanwhile.
C19_OffsetBelowFirstTotalAndTerminates ==
    /\ [](pc \in {"page_call", "page_ret"} =>
            /\ offset = Len(out)
            /\ offset < total
            /\ Len(pages) <= offset + (IF pc = "page_ret" /\ api_ret.tag = "ok"
                                       THEN 1 ELSE 0))
    /\ [](PageLoads <= total + 1)
    /\ [][(pc = "meta_ret" /\ api_ret.tag = "ok") =>
             total' = api_ret.page.total]_vars
    /\ [][pc # "meta_ret" => total' = total]_vars
    /\ <>(pc = "done")

\* C19 witness: the collection grew after the first call, every loop page
\* held one item, the last page reported a total other than the first
\* call's, and get_all returned after total + 1 page loads
C19_Witness ==
    /\ pc = "done"
    /\ ret.tag = "ok"
    /\ changes > 0
    /\ total = MaxItems
    /\ api_ret.tag = "ok"
    /\ api_ret.page.total > total
    /\ PageLoads = total + 1
    /\ Len(ret.val) = total

(***************************************************************************)
(* Claims about shuffle_library, checked under SpecShuffle.                *)
(***************************************************************************)
Denylist == {"Discover Weekly", "Starred", "Liked from Radio", "Shuffle"}
IsSource(pl) == pl.name \notin Denylist
IdsOfPlaylists(pls) == [i \in DOMAIN pls |-> pls[i].id]

\* the IDs of the playlists of a listing that are not on the denylist, in
\* listing order
SourceIds(pls) == IdsOfPlaylists(SelectSeq(pls, IsSource))

\* the track IDs of the playlists of a listing that are not on the denylist
SourceTrackIds(pls) ==
    {TracksOf(pls[j])[k].id.v :
        j \in {i \in DOMAIN pls : IsSource(pls[i])}, k \in {1}}

GroupsFromSources(gs) ==
    \A m \in DOMAIN gs : \A k \in DOMAIN gs[m].track_ids :
        gs[m].track_ids[k] \in SourceTrackIds(playlists)

\* C14: the only collections a run fetches are the playlist listing and,
\* inside load_groups, the tracks of a playlist of the listing whose name
\* is not "Discover Weekly", "Starred", "Liked from Radio" or "Shuffle";
\* the playlists fetched so far are the listing's playlists that are not
\* on the denylist up to the loop's position, in listing order and each
\* once, and when load_groups returns these are all of them; no group
\* handed to the assembler holds a track of a playlist on the denylist.
C14_DenylistedNeverFetchedOthersOnce ==
    /\ phase = "load_tracks" =>
          /\ pl_idx \in DOMAIN playlists
          /\ IsSource(playlists[pl_idx])
          /\ remote = TracksOf(playlists[pl_idx])
          /\ fetched = SourceIds(SubSeq(playlists, 1, pl_idx))
    /\ phase # "load_tracks" => remote \in {<<>>, library}
    /\ \A i, j \in DOMAIN fetched : fetched[i] = fetched[j] => i = j
    /\ \A i \in DOMAIN fetched :
          \E j \in DOMAIN playlists :
              playlists[j].id = fetched[i] /\ IsSource(playlists[j])
    /\ GroupsFromSources(all_groups)
    /\ phase = "assemble" =>
          /\ fetched = SourceIds(playlists)
          /\ GroupsFromSources(groups_in)
          /\ GroupsFromSources(src)
          /\ \A k \in DOMAIN out_ids : out_ids[k] \in SourceTrackIds(playlists)

\* C14 witness: the listing holds a playlist on the denylist, a playlist
\* "Shuffle" and none other than these before a playlist "Mix"; load_groups
\* has returned with only the last one fetched and its group handed to the
\* assembler
C14_Witness ==
    /\ phase = "assemble"
    /\ pc = "shuffle"
    /\ Len(playlists) = 2
    /\ playlists[1].name = "Shuffle"
    /\ playlists[2].name = "Mix"
    /\ fetched = <<playlists[2].id>>
    /\ Len(groups_in) = 1

ShufflePositions(pls) == {j \in DOMAIN pls : pls[j].name = "Shuffle"}
IsRetried(c) == c.tag = "limited"
IsAnswered(c) == c.tag # "limited"

\* C15: once the listing for the destination lookup is there: if it holds
\* a playlist named "Shuffle", the destination is the first such playlist
\* and no create request is ever issued; otherwise every create request
\* carries the name "Shuffle", the create call (retried after rate-limit
\* errors) is answered once, and when it succeeds the destination is the
\* ID it returned.  set_playlist runs with that ID from its first call to
\* its last, and no clear or add call is issued before the destination is
\* chosen.
C15_DestinationIsFirstShuffleOrCreatedOnce ==
    /\ [](phase \in {"create", "set"} =>
            IF ShufflePositions(lookup) # {}
            THEN /\ phase = "set"
                 /\ \E j \in ShufflePositions(lookup) :
                       /\ \A k \in ShufflePositions(lookup) : j <= k
                       /\ playlist_id = Some(lookup[j].id)
                 /\ create_log = <<>>
            ELSE /\ \A i \in DOMAIN create_log : create_log[i].name = "Shuffle"
                 /\ \A i \in DOMAIN create_log :
                       IsAnswered(create_log[i]) => i = Len(create_log)
                 /\ phase = "set" =>
                       /\ create_log # <<>>
                       /\ create_log[Len(create_log)].tag = "ok"
                       /\ playlist_id = Some(NewPlaylistId)
                 /\ phase = "create" => log = <<>> /\ playlist_id = None)
    /\ [](phase \notin {"create", "set"} =>
            create_log = <<>> /\ log = <<>> /\ playlist_id = None)
    /\ [][phase = "set" => playlist_id' = playlist_id /\ create_log' = create_log]_vars

\* C15 witness: the lookup listing holds two playlists named "Shuffle";
\* the run reused the first, cleared it and added the tracks to it
C15_Witness ==
    /\ pc = "exit"
    /\ phase = "set"
    /\ result.tag = "ok"
    /\ Len(lookup) = 2
    /\ ShufflePositions(lookup) = {1, 2}
    /\ playlist_id = Some(lookup[1].id)
    /\ create_log = <<>>
    /\ \E i \in DOMAIN log : log[i].op = "replace" /\ log[i].tag = "ok"

\* a remote call of the run has failed with a non-rate-limit error
Failed == api_ret.tag = "err"

\* C16: a non-rate-limit error is the error of the last remote call issued:
\* from then on no remote call is issued, the functions return
\* one after the other and shuffle_library returns that error; when the
\* call that failed was a listing of the playlists or a fetch of a
\* playlist's tracks, no create, clear or add call was ever issued.
C16_FirstErrorEndsTheRun ==
    /\ [](\A i \in DOMAIN api_results :
            IsOtherErrResult(api_results[i]) =>
                /\ i = Len(api_results)
                /\ api_ret = Err(api_results[i].err))
    /\ [](Failed => /\ api_results # <<>>
                    /\ api_ret.err = api_results[Len(api_results)].err
                    /\ api_ret.err \in OtherErrors)
    /\ [][Failed => /\ api_ret' = api_ret
                    /\ api_results' = api_results
                    /\ api_calls' = api_calls
                    /\ log' = log
                    /\ create_log' = create_log
                    /\ fetched' = fetched
                    /\ phase' = phase
                    /\ pc' \in {"done", "exit"}]_vars
    /\ [](Failed /\ pc = "exit" => result = Err(api_ret.err))
    /\ [](pc = "exit" /\ result.tag = "err" => Failed)
    /\ [](Failed /\ phase \in {"load_list", "load_tracks", "dest_list"} =>
            log = <<>> /\ create_log = <<>> /\ dest = <<>>)

\* C16 witness: with two playlists to fetch, the fetch of the first one's
\* tracks failed after a rate-limit error; the second one was never
\* fetched and the run ended with the error, with no create, clear or add
C16_Witness ==
    /\ pc = "exit"
    /\ phase = "load_tracks"
    /\ Failed
    /\ result = Err(api_ret.err)
    /\ Len(api_results) = 2
    /\ SourceIds(playlists) = <<1, 2>>
    /\ fetched = <<1>>
    /\ log = <<>>
    /\ create_log = <<>>

====
